---- MODULE Spec2Model ----
(***************************************************************************)
(* Local Library: the request handlers of the four catalog resources       *)
(* (Author, Genre, Book, BookInstance) over the document store.            *)
(*                                                                         *)
(* A string is a sequence of one-character strings.  In Spec a request is   *)
(* handled in one step (one request at a time); each handler is one action *)
(* which reads and writes the four collections and leaves its answer in    *)
(* res.  In ConcSpec the handlers that look up and then write are two      *)
(* steps, split at the await between them, and other requests run between. *)
(***************************************************************************)
EXTENDS Integers, Sequences, FiniteSets, Bags, TLC

\* ------------------------------------------------------------------ bounds
\* number of documents ever created in each collection (ids are never reused)
MaxAuthors == 2
MaxGenres == 2
MaxBooks == 2
MaxInstances == 1
\* number of documents ever created in the four collections together
MaxDocs == 4
\* number of handlers suspended at an await at the same time
MaxAwaiting == 1

\* ----------------------------------------------------------------- strings
SP == " "
EMPTY == <<>>
\* value of a form field that the request body does not carry
UNDEFINED == <<"undefined">>
\* a null reference / a null date as stored in a document
NULL == <<>>

RECURSIVE TrimLeft(_)
TrimLeft(s) == IF s # <<>> /\ Head(s) = SP THEN TrimLeft(Tail(s)) ELSE s

RECURSIVE TrimRight(_)
TrimRight(s) ==
    IF s # <<>> /\ s[Len(s)] = SP THEN TrimRight(SubSeq(s, 1, Len(s) - 1)) ELSE s

\* validator.js trim(): strip the white space on both ends
Trim(s) == TrimRight(TrimLeft(s))

\* validator.js escape(): the HTML special characters become entities
EscapeChar(c) ==
    CASE c = "<" -> <<"&", "l", "t", ";">>
      [] c = ">" -> <<"&", "g", "t", ";">>
      [] c = "&" -> <<"&", "a", "m", "p", ";">>
      [] OTHER -> <<c>>

RECURSIVE Escape(_)
Escape(s) == IF s = <<>> THEN <<>> ELSE EscapeChar(Head(s)) \o Escape(Tail(s))

\* sanitizeBody(field).trim().escape(); a field the body lacks stays undefined
Sanitize(s) == IF s = UNDEFINED THEN UNDEFINED ELSE Escape(Trim(s))

\* isLength({ min: 1 }) on the value as submitted (a missing field counts as "")
IsLengthMin1(s) == s # UNDEFINED /\ Len(s) >= 1

\* isAlphanumeric(): one or more letters or digits
IsAlphanumeric(s) ==
    /\ s # <<>>
    /\ \A i \in 1..Len(s) : s[i] \notin {SP, "<", ">", "&", ";", "-"}

\* the ISO-8601 dates of the model
IsoDates == { <<"2", "0", "0", "1", "-", "0", "2", "-", "0", "3">> }
IsISO8601(s) == s \in IsoDates

\* optional({ checkFalsy: true }).isISO8601()
OptionalISO8601(s) == s = UNDEFINED \/ s = EMPTY \/ IsISO8601(s)

\* sanitizeBody(field).toDate(): a Date (named by its ISO text), or null
ToDate(s) == IF IsISO8601(s) THEN s ELSE NULL

\* the code unit of a character of the model's alphabet
CharCode(c) ==
    CASE c = SP -> 32 [] c = "&" -> 38 [] c = "-" -> 45
      [] c = "0" -> 48 [] c = "1" -> 49 [] c = "2" -> 50 [] c = "3" -> 51
      [] c = ";" -> 59 [] c = "<" -> 60 [] c = ">" -> 62
      [] c = "a" -> 97 [] c = "b" -> 98 [] c = "c" -> 99 [] c = "g" -> 103
      [] c = "i" -> 105 [] c = "l" -> 108 [] c = "m" -> 109 [] c = "n" -> 110
      [] c = "p" -> 112 [] c = "s" -> 115 [] c = "t" -> 116 [] c = "x" -> 120

\* s sorts before t or with it: strings compare code unit by code unit
RECURSIVE StrLeq(_, _)
StrLeq(s, t) ==
    IF s = <<>> THEN TRUE
    ELSE IF t = <<>> THEN FALSE
    ELSE IF Head(s) = Head(t) THEN StrLeq(Tail(s), Tail(t))
    ELSE CharCode(Head(s)) < CharCode(Head(t))

\* --------------------------------------------------------------------- ids
AuthorId(k) == <<"a", ToString(k)>>
GenreId(k) == <<"g", ToString(k)>>
BookId(k) == <<"b", ToString(k)>>
InstanceId(k) == <<"i", ToString(k)>>

AuthorIds == { AuthorId(k) : k \in 1..MaxAuthors }
GenreIds == { GenreId(k) : k \in 1..MaxGenres }
BookIds == { BookId(k) : k \in 1..MaxBooks }
InstanceIds == { InstanceId(k) : k \in 1..MaxInstances }

VARIABLES
    authors,        \* Author collection: id -> document
    genres,         \* Genre collection
    books,          \* Book collection
    bookinstances,  \* BookInstance collection
    created,        \* documents ever saved, per collection (next fresh id)
    res,            \* the request being answered: [op, req, out], or NoRequest
    awaiting        \* bag of the handlers suspended between lookup and write

vars == <<authors, genres, books, bookinstances, created, res, awaiting>>
store == <<authors, genres, books, bookinstances, created>>

\* --------------------------------------------------------------- documents
\* the fresh _id a new document gets: ObjectIds are never reused
FreshAuthor == AuthorId(created.author + 1)
FreshGenre == GenreId(created.genre + 1)
FreshBook == BookId(created.book + 1)
FreshInstance == InstanceId(created.instance + 1)

\* the documents created so far
TotalCreated == created.author + created.genre + created.book + created.instance

\* the strings that are ObjectIds
ObjectIds == AuthorIds \cup GenreIds \cup BookIds \cup InstanceIds

\* a reference path set from a string: an ObjectId, or not set when the cast fails
CastObjectId(s) == IF s \in ObjectIds THEN s ELSE UNDEFINED

\* the url virtual of a document: the detail route of its _id
Url(route, id) == [route |-> route, id |-> id]
\* the url property of what is not a document
UndefinedUrl == [route |-> "undefined", id |-> <<>>]
ListUrl(route) == [route |-> route, id |-> <<>>]

\* the statuses a BookInstance may have
AllowedStatus == { <<"Available">>, <<"Maintenance">>, <<"Loaned">>, <<"Reserved">> }
DefaultStatus == <<"Maintenance">>

\* save() validates the document against its schema
AuthorSchemaOk(doc) == doc.first_name # EMPTY /\ doc.family_name # EMPTY
GenreSchemaOk(doc) == doc.name # EMPTY
BookSchemaOk(doc) ==
    /\ doc.title # EMPTY
    /\ doc.author \notin {EMPTY, UNDEFINED}
    /\ doc.summary # EMPTY
    /\ doc.isbn # EMPTY
InstanceSchemaOk(doc) ==
    /\ doc.book \notin {EMPTY, UNDEFINED}
    /\ doc.imprint # EMPTY
    /\ doc.status \in AllowedStatus

\* --------------------------------------------------------------- responses
\* res.render(view, locals): the document shown, the documents listed with it
\* and the validation errors
Render(view, subject, items, errors) ==
    [kind |-> "render", view |-> view, subject |-> subject, items |-> items,
     errors |-> errors]
\* res.redirect(url)
Redirect(url) == [kind |-> "redirect", url |-> url]

\* the errors a handler passes to next(err); status 0: the error has no status
\* (a variant that forgets err.status = 404)
NotFoundNoStatus(message) == [message |-> message, status |-> 0]
NotFound(message) == [message |-> message, status |-> 404]
DbError == [message |-> "database error", status |-> 0]
TypeError == [message |-> "TypeError", status |-> 0]
ValidationError == [message |-> "ValidationError", status |-> 0]

\* the error-handling middleware: the error page with err.status || 500
ErrorHandler(err) ==
    [kind |-> "error", view |-> "error",
     status |-> IF err.status # 0 THEN err.status ELSE 500,
     message |-> err.message]

\* a database call of the request either succeeds or rejects
DbOutcomes == {"ok", "fail"}

\* no request is being handled
NoRequest == [op |-> "none"]

\* the handler op has answered request req with the calls out made on res and next
Answer(op, req, out) == res' = [op |-> op, req |-> req, out |-> out]
\* catch (err) { return next(err) } after a database call that rejected
DbFailed(op, req) == Answer(op, req, <<ErrorHandler(DbError)>>) /\ UNCHANGED store
\* catch (err) { return next(err) } after an exception thrown in the handler
Threw(op, req, err) == Answer(op, req, <<ErrorHandler(err)>>) /\ UNCHANGED store

\* the collection without one document (findByIdAndRemove)
Without(coll, id) == [d \in DOMAIN coll \ {id} |-> coll[d]]
\* the collection with one document added or overwritten
With(coll, id, doc) == [d \in DOMAIN coll \cup {id} |-> IF d = id THEN doc ELSE coll[d]]

\* Model.find() without sort: all the documents of the collection, each once,
\* in an order the query does not determine
Find(coll) ==
    { list \in [1..Cardinality(DOMAIN coll) -> DOMAIN coll] :
        \A i, j \in DOMAIN list : i # j => list[i] # list[j] }
\* Model.find().sort([[field, 'ascending']]): the orders that ascend by the field
FindSorted(coll, field) ==
    { list \in Find(coll) :
        \A i \in DOMAIN list :
            i < Len(list) => StrLeq(coll[list[i]][field], coll[list[i + 1]][field]) }
\* res.render(view, { ..._list: list }): the page of a list, in the order given
RenderList(view, list) ==
    [kind |-> "render", view |-> view, subject |-> NULL,
     items |-> { list[i] : i \in DOMAIN list }, list |-> list, errors |-> {}]

\* ----------------------------------------------------------------- Author
\* the Author forms submitted
AuthorForms ==
    { [first_name |-> <<"a">>, family_name |-> <<"b">>, date_of_birth |-> EMPTY,
       date_of_death |-> EMPTY] }
    \cup
    { [first_name |-> <<"a">>, family_name |-> <<"c", SP>>,
       date_of_birth |-> d, date_of_death |-> EMPTY] : d \in IsoDates }
    \cup
    { [first_name |-> f, family_name |-> n, date_of_birth |-> d, date_of_death |-> EMPTY] :
        f \in { <<SP>> }, n \in { EMPTY, <<"<">> }, d \in { EMPTY, <<"x">> } }

\* the validation chain of the Author forms, in the order it is written
AuthorErrors(form) ==
    (IF IsLengthMin1(form.first_name) THEN {} ELSE {"First name must be specified."})
    \cup (IF IsAlphanumeric(Trim(form.first_name)) THEN {}
          ELSE {"First name has non-alphanumeric characters."})
    \cup (IF IsLengthMin1(form.family_name) THEN {} ELSE {"Family name must be specified."})
    \cup (IF IsAlphanumeric(Trim(form.family_name)) THEN {}
          ELSE {"Family name has non-alphanumeric characters."})
    \cup (IF OptionalISO8601(form.date_of_birth) THEN {} ELSE {"Invalid date of birth"})
    \cup (IF OptionalISO8601(form.date_of_death) THEN {} ELSE {"Invalid date of death"})

\* req.body after the sanitizers: the fields of the Author document
AuthorDoc(form) ==
    [first_name |-> Sanitize(form.first_name),
     family_name |-> Sanitize(form.family_name),
     date_of_birth |-> ToDate(form.date_of_birth),
     date_of_death |-> ToDate(form.date_of_death)]

\* (a variant that looks no book up)
AuthorsBooksNone(id) == {}
\* Book.find({ 'author': id })
AuthorsBooks(id) == { b \in DOMAIN books : books[b].author = id }

author_list(db) ==
    LET req == [db |-> db]
    IN  IF db = "fail" THEN DbFailed("author_list", req)
        ELSE /\ \E list_authors \in FindSorted(authors, "family_name") :
                    Answer("author_list", req, <<RenderList("author_list", list_authors)>>)
             /\ UNCHANGED store

author_detail(id, db) ==
    LET req == [id |-> id, db |-> db]
    IN  IF db = "fail" THEN DbFailed("author_detail", req)
        ELSE /\ UNCHANGED store
             /\ IF id \notin DOMAIN authors
                THEN Answer("author_detail", req,
                            <<ErrorHandler(NotFound("Author not found"))>>)
                ELSE Answer("author_detail", req,
                            <<Render("author_detail", id, AuthorsBooks(id), {})>>)

author_create_get ==
    /\ Answer("author_create_get", [db |-> "ok"], <<Render("author_form", NULL, {}, {})>>)
    /\ UNCHANGED store

author_create_post(form, db) ==
    LET req == [form |-> form, db |-> db]
        errors == AuthorErrors(form)
        doc == AuthorDoc(form)
    IN  IF errors # {}
        THEN /\ Answer("author_create_post", req,
                       <<Render("author_form", NULL, {}, errors)>>)
             /\ UNCHANGED store
        ELSE IF db = "fail" THEN DbFailed("author_create_post", req)
        ELSE IF ~AuthorSchemaOk(doc)
        THEN Threw("author_create_post", req, ValidationError)
        ELSE /\ created.author < MaxAuthors /\ TotalCreated < MaxDocs
             /\ authors' = With(authors, FreshAuthor, doc)
             /\ created' = [created EXCEPT !.author = @ + 1]
             /\ Answer("author_create_post", req,
                       <<Redirect(Url("/catalog/author/", FreshAuthor))>>)
             /\ UNCHANGED <<genres, books, bookinstances>>

author_delete_get(id, db) ==
    LET req == [id |-> id, db |-> db]
    IN  IF db = "fail" THEN DbFailed("author_delete_get", req)
        ELSE /\ UNCHANGED store
             /\ Answer("author_delete_get", req,
                       (IF id \notin DOMAIN authors
                        THEN <<Redirect(ListUrl("/catalog/authors"))>> ELSE <<>>)
                       \o <<Render("author_delete",
                                   IF id \in DOMAIN authors THEN id ELSE NULL,
                                   AuthorsBooks(id), {})>>)

author_delete_post(authorid, db) ==
    LET req == [authorid |-> authorid, db |-> db]
    IN  IF db = "fail" THEN DbFailed("author_delete_post", req)
        ELSE IF AuthorsBooks(authorid) # {}
        THEN /\ Answer("author_delete_post", req,
                       <<Render("author_delete",
                                IF authorid \in DOMAIN authors THEN authorid ELSE NULL,
                                AuthorsBooks(authorid), {})>>)
             /\ UNCHANGED store
        ELSE /\ authors' = Without(authors, authorid)
             /\ Answer("author_delete_post", req, <<Redirect(ListUrl("/catalog/authors"))>>)
             /\ UNCHANGED <<genres, books, bookinstances, created>>

author_update_get(id, db) ==
    LET req == [id |-> id, db |-> db]
    IN  IF db = "fail" THEN DbFailed("author_update_get", req)
        ELSE /\ UNCHANGED store
             /\ IF id \notin DOMAIN authors
                THEN Answer("author_update_get", req,
                            <<ErrorHandler(NotFound("Author not found"))>>)
                ELSE Answer("author_update_get", req, <<Render("author_form", id, {}, {})>>)

\* what findByIdAndUpdate(...) yields where the handler does not await it: a
\* query that is never executed, so the collection keeps its documents
AuthorUpdateQuery(id, doc) == authors

author_update_post(id, form) ==
    LET req == [id |-> id, form |-> form]
        errors == AuthorErrors(form)
        doc == AuthorDoc(form)
    IN  IF errors # {}
        THEN /\ Answer("author_update_post", req,
                       <<Render("author_form", id, {}, errors)>>)
             /\ UNCHANGED store
        ELSE \* theauthor is the query, not a document: theauthor.url is undefined
             /\ authors' = AuthorUpdateQuery(id, doc)
             /\ Answer("author_update_post", req, <<Redirect(UndefinedUrl)>>)
             /\ UNCHANGED <<genres, books, bookinstances, created>>

\* ------------------------------------------------------------------ Genre
\* the Genre forms submitted
GenreForms == { [name |-> n] : n \in { EMPTY, <<SP>>, <<"n">>, <<SP, "n">> } }

\* body('name', 'Genre name required').isLength({ min: 1 }).trim()
GenreErrors(form) ==
    IF IsLengthMin1(form.name) THEN {} ELSE {"Genre name required"}

GenreDoc(form) == [name |-> Sanitize(form.name)]

\* Book.find({ 'genre': id })
GenreBooks(id) ==
    { b \in DOMAIN books : \E i \in 1..Len(books[b].genre) : books[b].genre[i] = id }

\* (a variant that finds no genre of the name)
GenresNamedNone(name) == {}
\* Genre.findOne({ 'name': name }): the ids of the documents that match
GenresNamed(name) == { g \in DOMAIN genres : genres[g].name = name }

genre_list(db) ==
    LET req == [db |-> db]
    IN  IF db = "fail" THEN DbFailed("genre_list", req)
        ELSE /\ \E list_genres \in FindSorted(genres, "name") :
                    Answer("genre_list", req, <<RenderList("genre_list", list_genres)>>)
             /\ UNCHANGED store

genre_detail(id, db) ==
    LET req == [id |-> id, db |-> db]
    IN  IF db = "fail" THEN DbFailed("genre_detail", req)
        ELSE /\ UNCHANGED store
             /\ IF id \notin DOMAIN genres
                THEN Answer("genre_detail", req, <<ErrorHandler(NotFound("Genre not found"))>>)
                ELSE Answer("genre_detail", req,
                            <<Render("genre_detail", id, GenreBooks(id), {})>>)

genre_create_get ==
    /\ Answer("genre_create_get", [db |-> "ok"], <<Render("genre_form", NULL, {}, {})>>)
    /\ UNCHANGED store

genre_create_post(form, db) ==
    LET req == [form |-> form, db |-> db]
        errors == GenreErrors(form)
        doc == GenreDoc(form)
        found == GenresNamed(doc.name)
    IN  IF errors # {}
        THEN /\ Answer("genre_create_post", req, <<Render("genre_form", NULL, {}, errors)>>)
             /\ UNCHANGED store
        ELSE IF db = "fail" THEN DbFailed("genre_create_post", req)
        ELSE IF found # {}
        THEN \* findOne yields one of the documents that match
             /\ \E g \in found :
                    Answer("genre_create_post", req, <<Redirect(Url("/catalog/genre/", g))>>)
             /\ UNCHANGED store
        ELSE IF ~GenreSchemaOk(doc)
        THEN Threw("genre_create_post", req, ValidationError)
        ELSE /\ created.genre < MaxGenres /\ TotalCreated < MaxDocs
             /\ genres' = With(genres, FreshGenre, doc)
             /\ created' = [created EXCEPT !.genre = @ + 1]
             /\ Answer("genre_create_post", req,
                       <<Redirect(Url("/catalog/genre/", FreshGenre))>>)
             /\ UNCHANGED <<authors, books, bookinstances>>

genre_delete_get(id, db) ==
    LET req == [id |-> id, db |-> db]
    IN  IF db = "fail" THEN DbFailed("genre_delete_get", req)
        ELSE /\ UNCHANGED store
             /\ Answer("genre_delete_get", req,
                       (IF id \notin DOMAIN genres
                        THEN <<Redirect(ListUrl("/catalog/genres"))>> ELSE <<>>)
                       \o <<Render("genre_delete",
                                   IF id \in DOMAIN genres THEN id ELSE NULL,
                                   GenreBooks(id), {})>>)

\* the genre whose books genre_delete_post looks up: req.params.id
GenreDeleteChecked(id, bodyid) == id
\* the genre genre_delete_post removes: req.body.id
GenreDeleteRemoved(id, bodyid) == bodyid

genre_delete_post(id, bodyid, db) ==
    LET req == [id |-> id, bodyid |-> bodyid, db |-> db]
        genre_books == GenreBooks(GenreDeleteChecked(id, bodyid))
    IN  IF db = "fail" THEN DbFailed("genre_delete_post", req)
        ELSE IF genre_books # {}
        THEN /\ Answer("genre_delete_post", req,
                       <<Render("genre_delete",
                                IF id \in DOMAIN genres THEN id ELSE NULL,
                                genre_books, {})>>)
             /\ UNCHANGED store
        ELSE /\ genres' = Without(genres, GenreDeleteRemoved(id, bodyid))
             /\ Answer("genre_delete_post", req, <<Redirect(ListUrl("/catalog/genres"))>>)
             /\ UNCHANGED <<authors, books, bookinstances, created>>

genre_update_get(id, db) ==
    LET req == [id |-> id, db |-> db]
    IN  IF db = "fail" THEN DbFailed("genre_update_get", req)
        ELSE /\ UNCHANGED store
             /\ IF id \notin DOMAIN genres
                THEN Answer("genre_update_get", req, <<ErrorHandler(NotFound("Genre not found"))>>)
                ELSE Answer("genre_update_get", req, <<Render("genre_form", id, {}, {})>>)

genre_update_post(id, form, db) ==
    LET req == [id |-> id, form |-> form, db |-> db]
        errors == GenreErrors(form)
        doc == GenreDoc(form)
    IN  IF errors # {}
        THEN /\ Answer("genre_update_post", req, <<Render("genre_form", id, {}, errors)>>)
             /\ UNCHANGED store
        ELSE IF db = "fail" THEN DbFailed("genre_update_post", req)
        ELSE IF id \notin DOMAIN genres
        THEN \* findByIdAndUpdate yields null: thegenre.url throws
             Threw("genre_update_post", req, TypeError)
        ELSE \* the update runs no schema validation
             /\ genres' = With(genres, id, doc)
             /\ Answer("genre_update_post", req, <<Redirect(Url("/catalog/genre/", id))>>)
             /\ UNCHANGED <<authors, books, bookinstances, created>>

\* ------------------------------------------------------------------- Book
\* req.body.genre as submitted: absent, one string, or an array of strings
NoGenre == [type |-> "undefined", value |-> <<>>]
OneGenre(g) == [type |-> "string", value |-> <<g>>]
GenreArray(gs) == [type |-> "array", value |-> gs]

\* the first middleware: convert the genre to an array
ToArray(genre) ==
    CASE genre.type = "array" -> genre.value
      [] genre.type = "undefined" -> <<>>
      [] OTHER -> <<genre.value[1]>>

\* the Book forms submitted
BookForms ==
    { [title |-> <<"t">>, author |-> AuthorId(1), summary |-> <<"<">>, isbn |-> <<"i">>,
       genre |-> NoGenre],
      [title |-> <<SP>>, author |-> AuthorId(1), summary |-> <<"<">>, isbn |-> <<"i">>,
       genre |-> OneGenre(GenreId(1))],
      [title |-> <<"s", SP>>, author |-> AuthorId(2), summary |-> <<"<">>, isbn |-> <<"i">>,
       genre |-> GenreArray(<<GenreId(2), GenreId(1)>>)] }
    \cup
    { [title |-> t, author |-> a, summary |-> <<"s">>, isbn |-> <<"i">>, genre |-> NoGenre] :
        t \in { EMPTY, <<"t">> }, a \in { EMPTY } }
    \cup
    { [title |-> <<"t">>, author |-> AuthorId(1), summary |-> s, isbn |-> i, genre |-> NoGenre] :
        s \in { EMPTY }, i \in { EMPTY, <<"i">> } }

\* the validation chain of the Book forms, in the order it is written: each
\* isLength({ min: 1 }) sees the field as submitted, the trim() follows it
BookErrors(form) ==
    (IF IsLengthMin1(form.title) THEN {} ELSE {"Title must not be empty."})
    \cup (IF IsLengthMin1(form.author) THEN {} ELSE {"Author must not be empty."})
    \cup (IF IsLengthMin1(form.summary) THEN {} ELSE {"Summary must not be empty."})
    \cup (IF IsLengthMin1(form.isbn) THEN {} ELSE {"ISBN must not be empty"})

\* the Book document made of the sanitized body
BookDoc(form) ==
    [title |-> Sanitize(form.title),
     author |-> CastObjectId(Sanitize(form.author)),
     summary |-> Sanitize(form.summary),
     isbn |-> Sanitize(form.isbn),
     genre |-> [i \in 1..Len(ToArray(form.genre)) |-> Sanitize(ToArray(form.genre)[i])]]

\* BookInstance.find({ 'book': id })
BookInstancesOf(id) == { i \in DOMAIN bookinstances : bookinstances[i].book = id }

index(db) ==
    LET req == [db |-> db]
    IN  /\ UNCHANGED store
        /\ IF db = "fail"
           THEN Answer("index", req, <<Render("index", NULL, {}, {"database error"})>>)
           ELSE Answer("index", req, <<Render("index", NULL, {}, {})>>)

book_list(db) ==
    LET req == [db |-> db]
    IN  IF db = "fail" THEN DbFailed("book_list", req)
        ELSE \* find({}, 'title author ') has no sort
             /\ \E list_books \in Find(books) :
                    Answer("book_list", req, <<RenderList("book_list", list_books)>>)
             /\ UNCHANGED store

book_detail(id, db) ==
    LET req == [id |-> id, db |-> db]
    IN  IF db = "fail" THEN DbFailed("book_detail", req)
        ELSE /\ UNCHANGED store
             /\ IF id \notin DOMAIN books
                THEN Answer("book_detail", req, <<ErrorHandler(NotFound("Book not found"))>>)
                ELSE Answer("book_detail", req,
                            <<Render("book_detail", id, BookInstancesOf(id), {})>>)

book_create_get(db) ==
    LET req == [db |-> db]
    IN  IF db = "fail" THEN DbFailed("book_create_get", req)
        ELSE /\ Answer("book_create_get", req,
                       <<Render("book_form", NULL, DOMAIN authors \cup DOMAIN genres, {})>>)
             /\ UNCHANGED store

book_create_post(form, db) ==
    LET req == [form |-> form, db |-> db]
        errors == BookErrors(form)
        doc == BookDoc(form)
    IN  IF db = "fail" THEN DbFailed("book_create_post", req)
        ELSE IF errors # {}
        THEN /\ Answer("book_create_post", req,
                       <<Render("book_form", NULL, DOMAIN authors \cup DOMAIN genres, errors)>>)
             /\ UNCHANGED store
        ELSE IF ~BookSchemaOk(doc)
        THEN Threw("book_create_post", req, ValidationError)
        ELSE /\ created.book < MaxBooks /\ TotalCreated < MaxDocs
             /\ books' = With(books, FreshBook, doc)
             /\ created' = [created EXCEPT !.book = @ + 1]
             /\ Answer("book_create_post", req, <<Redirect(Url("/catalog/book/", FreshBook))>>)
             /\ UNCHANGED <<authors, genres, bookinstances>>

book_delete_get(id, db) ==
    LET req == [id |-> id, db |-> db]
    IN  IF db = "fail" THEN DbFailed("book_delete_get", req)
        ELSE /\ UNCHANGED store
             /\ Answer("book_delete_get", req,
                       (IF id \notin DOMAIN books
                        THEN <<Redirect(ListUrl("/catalog/books"))>> ELSE <<>>)
                       \o <<Render("book_delete",
                                   IF id \in DOMAIN books THEN id ELSE NULL,
                                   BookInstancesOf(id), {})>>)

\* the Book collection after book_delete_post: the handler removes nothing
BookDeleteResult(id) == books

book_delete_post(id, db) ==
    LET req == [id |-> id, db |-> db]
    IN  IF db = "fail" THEN DbFailed("book_delete_post", req)
        ELSE IF id \notin DOMAIN books
        THEN Threw("book_delete_post", req, NotFound("Book not found"))
        ELSE /\ books' = BookDeleteResult(id)
             /\ Answer("book_delete_post", req,
                       <<Render("book_form", id, DOMAIN authors \cup DOMAIN genres, {})>>)
             /\ UNCHANGED <<authors, genres, bookinstances, created>>

book_update_get(id, db) ==
    LET req == [id |-> id, db |-> db]
    IN  IF db = "fail" THEN DbFailed("book_update_get", req)
        ELSE IF id \notin DOMAIN books
        THEN Threw("book_update_get", req, NotFound("Book not found"))
        ELSE /\ Answer("book_update_get", req,
                       <<Render("book_form", id, DOMAIN authors \cup DOMAIN genres, {})>>)
             /\ UNCHANGED store

\* (a variant whose document lacks _id: req.params.id, so that a new id is assigned)
BookUpdatedNewId(id, doc) == With(books, FreshBook, doc)
\* Book.findByIdAndUpdate(id, book, {}): the stored fields are overwritten
BookUpdated(id, doc) == With(books, id, doc)

book_update_post(id, form, db) ==
    LET req == [id |-> id, form |-> form, db |-> db]
        errors == BookErrors(form)
        doc == BookDoc(form)
    IN  IF db = "fail" THEN DbFailed("book_update_post", req)
        ELSE IF errors # {}
        THEN /\ Answer("book_update_post", req,
                       <<Render("book_form", id, DOMAIN authors \cup DOMAIN genres, errors)>>)
             /\ UNCHANGED store
        ELSE IF id \notin DOMAIN books
        THEN \* findByIdAndUpdate yields null: thebook.url throws
             Threw("book_update_post", req, TypeError)
        ELSE \* the update runs no schema validation
             /\ books' = BookUpdated(id, doc)
             /\ Answer("book_update_post", req, <<Redirect(Url("/catalog/book/", id))>>)
             /\ UNCHANGED <<authors, genres, bookinstances, created>>

\* ----------------------------------------------------------- BookInstance
\* the BookInstance forms submitted
InstanceForms ==
    { [book |-> BookId(1), imprint |-> <<"p">>, status |-> st, due_back |-> EMPTY] :
        st \in { UNDEFINED, <<"Lost">> } }
    \cup
    { [book |-> b, imprint |-> <<"p">>, status |-> <<"Available">>, due_back |-> d] :
        b \in { EMPTY, BookId(2) }, d \in IsoDates }
    \cup
    { [book |-> BookId(1), imprint |-> EMPTY, status |-> <<"Loaned">>, due_back |-> <<"x">>] }

\* the validation chain of the BookInstance forms
InstanceErrors(form) ==
    (IF IsLengthMin1(form.book) THEN {} ELSE {"Book must be specified"})
    \cup (IF IsLengthMin1(form.imprint) THEN {} ELSE {"Imprint must be specified"})
    \cup (IF OptionalISO8601(form.due_back) THEN {} ELSE {"Invalid date"})

\* new BookInstance({...}) of the sanitized body; a status not given is the default
InstanceDoc(form) ==
    [book |-> CastObjectId(Sanitize(form.book)),
     imprint |-> Sanitize(form.imprint),
     status |-> IF Sanitize(form.status) = UNDEFINED THEN DefaultStatus
                ELSE Sanitize(form.status),
     due_back |-> ToDate(form.due_back)]

\* what bookinstance_detail holds after findById(...).populate('book') without await
QUERY == <<"query">>

bookinstance_list(db) ==
    LET req == [db |-> db]
    IN  IF db = "fail" THEN DbFailed("bookinstance_list", req)
        ELSE \* find() has no sort
             /\ \E list_bookinstances \in Find(bookinstances) :
                    Answer("bookinstance_list", req,
                           <<RenderList("bookinstance_list", list_bookinstances)>>)
             /\ UNCHANGED store

\* the value bookinstance_detail tests against null
InstanceDetailFound(id) == QUERY

bookinstance_detail(id) ==
    LET req == [id |-> id]
        bookinstance == InstanceDetailFound(id)
    IN  /\ UNCHANGED store
        /\ IF bookinstance = NULL
           THEN Answer("bookinstance_detail", req,
                       <<ErrorHandler(NotFound("Book copy not found"))>>)
           ELSE Answer("bookinstance_detail", req,
                       <<Render("bookinstance_detail", bookinstance, {}, {})>>)

bookinstance_create_get(db) ==
    LET req == [db |-> db]
    IN  IF db = "fail" THEN DbFailed("bookinstance_create_get", req)
        ELSE /\ Answer("bookinstance_create_get", req,
                       <<Render("bookinstance_form", NULL, DOMAIN books, {})>>)
             /\ UNCHANGED store

\* the re-rendering of the form reads bookinstance.book._id: a TypeError when
\* the book path is not set
InstanceFormAgain(op, req, subject, doc, errors) ==
    IF doc.book = UNDEFINED
    THEN Threw(op, req, TypeError)
    ELSE /\ Answer(op, req, <<Render("bookinstance_form", subject, DOMAIN books, errors)>>)
         /\ UNCHANGED store

bookinstance_create_post(form, db) ==
    LET req == [form |-> form, db |-> db]
        errors == InstanceErrors(form)
        doc == InstanceDoc(form)
    IN  IF db = "fail" THEN DbFailed("bookinstance_create_post", req)
        ELSE IF errors # {}
        THEN InstanceFormAgain("bookinstance_create_post", req, NULL, doc, errors)
        ELSE IF ~InstanceSchemaOk(doc)
        THEN Threw("bookinstance_create_post", req, ValidationError)
        ELSE /\ created.instance < MaxInstances /\ TotalCreated < MaxDocs
             /\ bookinstances' = With(bookinstances, FreshInstance, doc)
             /\ created' = [created EXCEPT !.instance = @ + 1]
             /\ Answer("bookinstance_create_post", req,
                       <<Redirect(Url("/catalog/bookinstance/", FreshInstance))>>)
             /\ UNCHANGED <<authors, genres, books>>

bookinstance_delete_get(id, db) ==
    LET req == [id |-> id, db |-> db]
    IN  IF db = "fail" THEN DbFailed("bookinstance_delete_get", req)
        ELSE /\ UNCHANGED store
             /\ Answer("bookinstance_delete_get", req,
                       (IF id \notin DOMAIN bookinstances
                        THEN <<Redirect(ListUrl("/catalog/bookinstances"))>> ELSE <<>>)
                       \o <<Render("bookinstance_delete",
                                   IF id \in DOMAIN bookinstances THEN id ELSE NULL,
                                   {}, {})>>)

bookinstance_delete_post(bodyid, db) ==
    LET req == [bodyid |-> bodyid, db |-> db]
    IN  IF db = "fail" THEN DbFailed("bookinstance_delete_post", req)
        ELSE /\ bookinstances' = Without(bookinstances, bodyid)
             /\ Answer("bookinstance_delete_post", req,
                       <<Redirect(ListUrl("/catalog/bookinstances"))>>)
             /\ UNCHANGED <<authors, genres, books, created>>

bookinstance_update_get(id, db) ==
    LET req == [id |-> id, db |-> db]
    IN  IF db = "fail" THEN DbFailed("bookinstance_update_get", req)
        ELSE IF id \notin DOMAIN bookinstances
        THEN Threw("bookinstance_update_get", req, NotFound("Book copy not found"))
        ELSE IF bookinstances[id].book \notin DOMAIN books
        THEN \* populate('book') leaves null: results.bookinstance.book._id throws
             Threw("bookinstance_update_get", req, TypeError)
        ELSE /\ Answer("bookinstance_update_get", req,
                       <<Render("bookinstance_form", id, DOMAIN books, {})>>)
             /\ UNCHANGED store

bookinstance_update_post(id, form, db) ==
    LET req == [id |-> id, form |-> form, db |-> db]
        errors == InstanceErrors(form)
        doc == InstanceDoc(form)
    IN  IF db = "fail" THEN DbFailed("bookinstance_update_post", req)
        ELSE IF errors # {}
        THEN InstanceFormAgain("bookinstance_update_post", req, id, doc, errors)
        ELSE IF id \notin DOMAIN bookinstances
        THEN \* findByIdAndUpdate yields null: thebookinstance.url throws
             Threw("bookinstance_update_post", req, TypeError)
        ELSE \* the update runs no schema validation
             /\ bookinstances' = With(bookinstances, id, doc)
             /\ Answer("bookinstance_update_post", req,
                       <<Redirect(Url("/catalog/bookinstance/", id))>>)
             /\ UNCHANGED <<authors, genres, books, created>>

\* ------------------------------------------------------------ the system
EmptyCollection == [d \in {} |-> NULL]

Init ==
    /\ authors = EmptyCollection
    /\ genres = EmptyCollection
    /\ books = EmptyCollection
    /\ bookinstances = EmptyCollection
    /\ created = [author |-> 0, genre |-> 0, book |-> 0, instance |-> 0]
    /\ res = NoRequest
    /\ awaiting = EmptyBag

\* the response has been sent: the next request may be handled
Respond ==
    /\ res # NoRequest
    /\ res' = NoRequest
    /\ UNCHANGED <<store, awaiting>>

\* requests are handled one at a time: no request is being answered
Idle == res = NoRequest
\* the handler runs from the request to its answer as one step
Whole == Idle /\ UNCHANGED awaiting

AuthorRequest ==
    \/ \E db \in DbOutcomes : Whole /\ author_list(db)
    \/ \E id \in AuthorIds, db \in DbOutcomes : Whole /\ author_detail(id, db)
    \/ Whole /\ author_create_get
    \/ \E form \in AuthorForms, db \in DbOutcomes : Whole /\ author_create_post(form, db)
    \/ \E id \in AuthorIds, db \in DbOutcomes : Whole /\ author_delete_get(id, db)
    \/ \E id \in AuthorIds, db \in DbOutcomes : Whole /\ author_delete_post(id, db)
    \/ \E id \in AuthorIds, db \in DbOutcomes : Whole /\ author_update_get(id, db)
    \/ \E id \in AuthorIds, form \in AuthorForms : Whole /\ author_update_post(id, form)

GenreRequest ==
    \/ \E db \in DbOutcomes : Whole /\ genre_list(db)
    \/ \E id \in GenreIds, db \in DbOutcomes : Whole /\ genre_detail(id, db)
    \/ Whole /\ genre_create_get
    \/ \E form \in GenreForms, db \in DbOutcomes : Whole /\ genre_create_post(form, db)
    \/ \E id \in GenreIds, db \in DbOutcomes : Whole /\ genre_delete_get(id, db)
    \/ \E id \in GenreIds, bodyid \in GenreIds, db \in DbOutcomes  :
           Whole /\ genre_delete_post(id, bodyid, db)
    \/ \E id \in GenreIds, db \in DbOutcomes : Whole /\ genre_update_get(id, db)
    \/ \E id \in GenreIds, form \in GenreForms, db \in DbOutcomes  :
           Whole /\ genre_update_post(id, form, db)

BookRequest ==
    \/ \E db \in DbOutcomes : Whole /\ index(db)
    \/ \E db \in DbOutcomes : Whole /\ book_list(db)
    \/ \E id \in BookIds, db \in DbOutcomes : Whole /\ book_detail(id, db)
    \/ \E db \in DbOutcomes : Whole /\ book_create_get(db)
    \/ \E form \in BookForms, db \in DbOutcomes : Whole /\ book_create_post(form, db)
    \/ \E id \in BookIds, db \in DbOutcomes : Whole /\ book_delete_get(id, db)
    \/ \E id \in BookIds, db \in DbOutcomes : Whole /\ book_delete_post(id, db)
    \/ \E id \in BookIds, db \in DbOutcomes : Whole /\ book_update_get(id, db)
    \/ \E id \in BookIds, form \in BookForms, db \in DbOutcomes  :
           Whole /\ book_update_post(id, form, db)

InstanceRequest ==
    \/ \E db \in DbOutcomes : Whole /\ bookinstance_list(db)
    \/ \E id \in InstanceIds : Whole /\ bookinstance_detail(id)
    \/ \E db \in DbOutcomes : Whole /\ bookinstance_create_get(db)
    \/ \E form \in InstanceForms, db \in DbOutcomes : Whole /\ bookinstance_create_post(form, db)
    \/ \E id \in InstanceIds, db \in DbOutcomes : Whole /\ bookinstance_delete_get(id, db)
    \/ \E id \in InstanceIds, db \in DbOutcomes : Whole /\ bookinstance_delete_post(id, db)
    \/ \E id \in InstanceIds, db \in DbOutcomes : Whole /\ bookinstance_update_get(id, db)
    \/ \E id \in InstanceIds, form \in InstanceForms, db \in DbOutcomes  :
           Whole /\ bookinstance_update_post(id, form, db)

Request == AuthorRequest \/ GenreRequest \/ BookRequest \/ InstanceRequest

Next == Request \/ Respond

Spec == Init /\ [][Next]_vars

\* ------------------------------------------ handlers split at their awaits
\* Between the awaited lookup of a handler and its awaited write the event
\* loop runs other requests' handlers.  A suspended handler holds what its
\* lookup returned: the document found (or NULL) and the books found.
Suspended(op, req, doc, found_books) ==
    [op |-> op, req |-> req, doc |-> doc, books |-> found_books]

\* await: the handler is suspended with the results of its lookup
Await(op, req, doc, found_books) ==
    /\ Idle
    /\ BagCardinality(awaiting) < MaxAwaiting
    /\ awaiting' = awaiting (+) SetToBag({Suspended(op, req, doc, found_books)})
    /\ UNCHANGED <<store, res>>

\* the suspended handler r runs on, to its answer
Resumed(r, op) ==
    /\ BagIn(r, awaiting)
    /\ r.op = op
    /\ Idle
    /\ awaiting' = awaiting (-) SetToBag({r})

\* genre_create_post up to: const found_genre = await Genre.findOne(...)
genre_create_post_findOne(form, db) ==
    LET req == [form |-> form, db |-> db]
        errors == GenreErrors(form)
        doc == GenreDoc(form)
        found == GenresNamed(doc.name)
    IN  IF errors # {}
        THEN /\ Whole
             /\ Answer("genre_create_post", req, <<Render("genre_form", NULL, {}, errors)>>)
             /\ UNCHANGED store
        ELSE IF db = "fail" THEN Whole /\ DbFailed("genre_create_post", req)
        ELSE \E found_genre \in (IF found = {} THEN {NULL} ELSE found) :
                Await("genre_create_post", req, found_genre, {})

\* genre_create_post from the test of found_genre on
genre_create_post_save(r) ==
    LET doc == GenreDoc(r.req.form)
    IN  /\ Resumed(r, "genre_create_post")
        /\ IF r.doc # NULL
           THEN /\ Answer("genre_create_post", r.req, <<Redirect(Url("/catalog/genre/", r.doc))>>)
                /\ UNCHANGED store
           ELSE IF ~GenreSchemaOk(doc)
           THEN Threw("genre_create_post", r.req, ValidationError)
           ELSE /\ created.genre < MaxGenres /\ TotalCreated < MaxDocs
                /\ genres' = With(genres, FreshGenre, doc)
                /\ created' = [created EXCEPT !.genre = @ + 1]
                /\ Answer("genre_create_post", r.req,
                          <<Redirect(Url("/catalog/genre/", FreshGenre))>>)
                /\ UNCHANGED <<authors, books, bookinstances>>

\* author_delete_post up to: authors_books: await author_books
author_delete_post_find(authorid, db) ==
    LET req == [authorid |-> authorid, db |-> db]
    IN  IF db = "fail" THEN Whole /\ DbFailed("author_delete_post", req)
        ELSE Await("author_delete_post", req,
                   IF authorid \in DOMAIN authors THEN authorid ELSE NULL,
                   AuthorsBooks(authorid))

\* author_delete_post from the test of results.authors_books on
author_delete_post_remove(r) ==
    /\ Resumed(r, "author_delete_post")
    /\ IF r.books # {}
       THEN /\ Answer("author_delete_post", r.req,
                      <<Render("author_delete", r.doc, r.books, {})>>)
            /\ UNCHANGED store
       ELSE /\ authors' = Without(authors, r.req.authorid)
            /\ Answer("author_delete_post", r.req, <<Redirect(ListUrl("/catalog/authors"))>>)
            /\ UNCHANGED <<genres, books, bookinstances, created>>

\* genre_delete_post up to: genre_books: await Book.find({ 'genre': req.params.id })
genre_delete_post_find(id, bodyid, db) ==
    LET req == [id |-> id, bodyid |-> bodyid, db |-> db]
    IN  IF db = "fail" THEN Whole /\ DbFailed("genre_delete_post", req)
        ELSE Await("genre_delete_post", req,
                   IF id \in DOMAIN genres THEN id ELSE NULL,
                   GenreBooks(GenreDeleteChecked(id, bodyid)))

\* genre_delete_post from the test of results.genre_books on
genre_delete_post_remove(r) ==
    /\ Resumed(r, "genre_delete_post")
    /\ IF r.books # {}
       THEN /\ Answer("genre_delete_post", r.req,
                      <<Render("genre_delete", r.doc, r.books, {})>>)
            /\ UNCHANGED store
       ELSE /\ genres' = Without(genres, GenreDeleteRemoved(r.req.id, r.req.bodyid))
            /\ Answer("genre_delete_post", r.req, <<Redirect(ListUrl("/catalog/genres"))>>)
            /\ UNCHANGED <<authors, books, bookinstances, created>>

\* the requests that create, rename and delete Authors, Genres and Books,
\* handled concurrently
ConcNext ==
    \/ \E form \in AuthorForms, db \in DbOutcomes : Whole /\ author_create_post(form, db)
    \/ \E id \in AuthorIds, db \in DbOutcomes : author_delete_post_find(id, db)
    \/ \E r \in BagToSet(awaiting) : author_delete_post_remove(r)
    \/ \E form \in GenreForms, db \in DbOutcomes : Whole /\ genre_create_post(form, db)
    \/ \E form \in GenreForms, db \in DbOutcomes : genre_create_post_findOne(form, db)
    \/ \E r \in BagToSet(awaiting) : genre_create_post_save(r)
    \/ \E id \in GenreIds, bodyid \in GenreIds, db \in DbOutcomes :
           genre_delete_post_find(id, bodyid, db)
    \/ \E r \in BagToSet(awaiting) : genre_delete_post_remove(r)
    \/ \E id \in GenreIds, form \in GenreForms, db \in DbOutcomes :
           Whole /\ genre_update_post(id, form, db)
    \/ \E form \in BookForms, db \in DbOutcomes : Whole /\ book_create_post(form, db)
    \/ \E id \in BookIds, form \in BookForms, db \in DbOutcomes :
           Whole /\ book_update_post(id, form, db)
    \/ Respond

ConcSpec == Init /\ [][ConcNext]_vars

\* ------------------------------------------------------------- properties
\* the database calls of the request answered in r succeeded
DbOk(r) == r.req.db = "ok"
\* the single call the handler made on res or next
Only(r) == IF Len(r.out) = 1 THEN r.out[1] ELSE [kind |-> "several"]
IsRender(o, view) == o.kind = "render" /\ o.view = view
IsError(o, status) == o.kind = "error" /\ o.status = status
\* Book b lists genre g
Lists(b, g) == \E i \in DOMAIN books[b].genre : books[b].genre[i] = g
\* collection after is collection before with at most the document id removed
RemovedOnly(before, after, id) ==
    /\ DOMAIN after = DOMAIN before \ {id}
    /\ \A d \in DOMAIN after : after[d] = before[d]

\* C1: a Genre delete-POST, whatever ids its route and its body carry, leaves
\* every Genre that some stored Book lists in the store.
C1_GenreDeletePostKeepsReferenced ==
    [][ res'.op = "genre_delete_post" =>
            \A g \in DOMAIN genres :
                (\E b \in DOMAIN books : Lists(b, g)) => g \in DOMAIN genres' ]_vars

\* C2: an Author delete-POST whose database calls succeed re-renders the delete
\* page and leaves the Author collection alone when some Book has the submitted
\* author id as its author; otherwise it removes that Author and no other, and
\* redirects to the author list.
C2_AuthorDeletePost ==
    [][ (res'.op = "author_delete_post" /\ DbOk(res')) =>
            LET id == res'.req.authorid
            IN  IF \E b \in DOMAIN books : books[b].author = id
                THEN /\ authors' = authors
                     /\ IsRender(Only(res'), "author_delete")
                ELSE /\ RemovedOnly(authors, authors', id)
                     /\ Only(res') = Redirect(ListUrl("/catalog/authors")) ]_vars

\* an Author delete-POST was refused for a stored Author who has a Book
C2_Witness ==
    /\ res.op = "author_delete_post"
    /\ DbOk(res)
    /\ res.req.authorid \in DOMAIN authors
    /\ \E b \in DOMAIN books : books[b].author = res.req.authorid
    /\ IsRender(Only(res), "author_delete")
    /\ Cardinality(DOMAIN authors) = 2

FormErrors(r) ==
    CASE r.op \in {"author_create_post", "author_update_post"} -> AuthorErrors(r.req.form)
      [] r.op \in {"genre_create_post", "genre_update_post"} -> GenreErrors(r.req.form)
      [] r.op \in {"book_create_post", "book_update_post"} -> BookErrors(r.req.form)
      [] OTHER -> InstanceErrors(r.req.form)
\* the view of the form of each entity
FormView(r) ==
    CASE r.op \in {"author_create_post", "author_update_post"} -> "author_form"
      [] r.op \in {"genre_create_post", "genre_update_post"} -> "genre_form"
      [] r.op \in {"book_create_post", "book_update_post"} -> "book_form"
      [] OTHER -> "bookinstance_form"
FormPosts ==
    { "author_create_post", "author_update_post", "genre_create_post", "genre_update_post",
      "book_create_post", "book_update_post", "bookinstance_create_post",
      "bookinstance_update_post" }

\* C4: a create-POST or update-POST whose validation chain reports an error
\* (and whose database calls succeed) re-renders the entity's form with the
\* errors and leaves the four collections as they were.
C4_InvalidFormRerendered ==
    [][ (/\ res'.op \in FormPosts
         /\ res'.op = "author_update_post" \/ DbOk(res')
         /\ FormErrors(res') # {}) =>
            /\ IsRender(Only(res'), FormView(res'))
            /\ Only(res').errors = FormErrors(res')
            /\ UNCHANGED <<authors, genres, books, bookinstances>> ]_vars

\* C5: a valid Book update-POST for a stored id leaves a Book of that id with
\* the submitted, sanitized title, author, summary, isbn and genre list, as
\* many Books as before and every other Book as it was, and redirects to the
\* detail page of that Book.
C5_BookUpdatePost ==
    [][ (/\ res'.op = "book_update_post"
         /\ DbOk(res')
         /\ BookErrors(res'.req.form) = {}
         /\ res'.req.id \in DOMAIN books) =>
            LET id == res'.req.id
                form == res'.req.form
                genre == ToArray(form.genre)
            IN  /\ DOMAIN books' = DOMAIN books
                /\ books'[id].title = Escape(Trim(form.title))
                /\ books'[id].author = Escape(Trim(form.author))
                /\ books'[id].summary = Escape(Trim(form.summary))
                /\ books'[id].isbn = Escape(Trim(form.isbn))
                /\ Len(books'[id].genre) = Len(genre)
                /\ \A i \in 1..Len(genre) : books'[id].genre[i] = Escape(Trim(genre[i]))
                /\ \A b \in DOMAIN books \ {id} : books'[b] = books[b]
                /\ Only(res') = Redirect(Url("/catalog/book/", id)) ]_vars

\* a valid Book update-POST was answered with the redirect while another Book
\* with other fields is stored
C5_Witness ==
    /\ res.op = "book_update_post"
    /\ DbOk(res)
    /\ BookErrors(res.req.form) = {}
    /\ res.req.id \in DOMAIN books
    /\ Only(res) = Redirect(Url("/catalog/book/", res.req.id))
    /\ books[res.req.id].genre # <<>>
    /\ \E b \in DOMAIN books : b # res.req.id /\ books[b] # books[res.req.id]

\* C6: Author detail (its database calls succeeding) forwards an error of status
\* 404 and renders no detail page for an id not in the Author collection, and
\* renders the author with exactly the Books of that author for a stored id.
C6_AuthorDetail ==
    (res.op = "author_detail" /\ DbOk(res)) =>
        IF res.req.id \notin DOMAIN authors
        THEN IsError(Only(res), 404)
        ELSE /\ IsRender(Only(res), "author_detail")
             /\ Only(res).subject = res.req.id
             /\ Only(res).items = { b \in DOMAIN books : books[b].author = res.req.id }

\* Author detail was asked for an id that is not stored, beside a stored Author
C6_Witness ==
    /\ res.op = "author_detail"
    /\ DbOk(res)
    /\ res.req.id \notin DOMAIN authors
    /\ DOMAIN authors # {}
    /\ IsError(Only(res), 404)

\* the collection each detail handler reads
DetailCollection(op) ==
    CASE op = "author_detail" -> authors
      [] op = "genre_detail" -> genres
      [] op = "book_detail" -> books
      [] OTHER -> bookinstances

\* C7: each of the four detail handlers answers an id absent from its collection
\* with a 404 and renders no detail page.
C7_DetailOfAbsentIs404 ==
    (/\ res.op \in {"author_detail", "genre_detail", "book_detail", "bookinstance_detail"}
     /\ res.op = "bookinstance_detail" \/ DbOk(res)
     /\ res.req.id \notin DOMAIN DetailCollection(res.op)) =>
        IsError(Only(res), 404)

\* C8: a Book delete-POST for a stored Book without BookInstances removes the
\* Book and answers with a redirect.
C8_BookDeletePostRemoves ==
    [][ (/\ res'.op = "book_delete_post"
         /\ DbOk(res')
         /\ res'.req.id \in DOMAIN books
         /\ \A i \in DOMAIN bookinstances : bookinstances[i].book # res'.req.id) =>
            /\ res'.req.id \notin DOMAIN books'
            /\ Only(res').kind = "redirect" ]_vars

\* C9: a valid Author update-POST for a stored id leaves an Author of that id
\* with the submitted first_name, family_name, date_of_birth and date_of_death
\* and redirects to the detail URL of that Author.
C9_AuthorUpdatePostOverwrites ==
    [][ (/\ res'.op = "author_update_post"
         /\ AuthorErrors(res'.req.form) = {}
         /\ res'.req.id \in DOMAIN authors) =>
            LET id == res'.req.id
                form == res'.req.form
            IN  /\ id \in DOMAIN authors'
                /\ authors'[id].first_name = Escape(Trim(form.first_name))
                /\ authors'[id].family_name = Escape(Trim(form.family_name))
                /\ authors'[id].date_of_birth = ToDate(form.date_of_birth)
                /\ authors'[id].date_of_death = ToDate(form.date_of_death)
                /\ Only(res') = Redirect(Url("/catalog/author/", id)) ]_vars

\* C10: a valid Genre create-POST (the name passes the validation chain and is
\* not empty once sanitized; the database calls succeed) creates nothing and
\* redirects to a stored Genre of that name when there is one; when there is
\* none it adds exactly one Genre, of that name, and redirects to it.
C10_GenreCreatePost ==
    [][ (/\ res'.op = "genre_create_post"
         /\ DbOk(res')
         /\ GenreErrors(res'.req.form) = {}
         /\ Escape(Trim(res'.req.form.name)) # EMPTY) =>
            LET name == Escape(Trim(res'.req.form.name))
                same == { g \in DOMAIN genres : genres[g].name = name }
            IN  IF same # {}
                THEN /\ genres' = genres
                     /\ \E g \in same : Only(res') = Redirect(Url("/catalog/genre/", g))
                ELSE \E g \in DOMAIN genres' \ DOMAIN genres :
                        /\ DOMAIN genres' = DOMAIN genres \cup {g}
                        /\ genres'[g].name = name
                        /\ \A old \in DOMAIN genres : genres'[old] = genres[old]
                        /\ Only(res') = Redirect(Url("/catalog/genre/", g)) ]_vars

\* a Genre create-POST with the name of a stored Genre was answered with the
\* redirect to that Genre, which an earlier request had created
C10_Witness ==
    /\ res.op = "genre_create_post"
    /\ DbOk(res)
    /\ GenreErrors(res.req.form) = {}
    /\ created.genre = 2
    /\ GenreId(1) \in DOMAIN genres
    /\ genres[GenreId(1)].name = Escape(Trim(res.req.form.name))
    /\ genres[GenreId(1)].name # EMPTY
    /\ Only(res) = Redirect(Url("/catalog/genre/", GenreId(1)))

\* the handler that answered r made a database call, and it rejected: the
\* Author and Genre form posts reach the database only with a form that passed
\* the validation chain
DbCallFailed(r) ==
    /\ r.op # "none"
    /\ "db" \in DOMAIN r.req
    /\ r.req.db = "fail"
    /\ r.op \in {"author_create_post", "genre_create_post", "genre_update_post"}
          => FormErrors(r) = {}

\* C11: every request, the one for the catalog index included, whose database
\* call rejects is answered by the error-handling middleware alone: the generic
\* error page with status 500, and no normally rendered page.
C11_DbFailureForwarded ==
    DbCallFailed(res) =>
        /\ IsError(Only(res), 500)
        /\ Only(res).view = "error"

\* the update-POST handlers that look the document up by id
LookupUpdatePosts == {"genre_update_post", "book_update_post", "bookinstance_update_post"}
\* the collection an update-POST handler updates
UpdatedCollection(op) ==
    CASE op = "genre_update_post" -> genres
      [] op = "book_update_post" -> books
      [] OTHER -> bookinstances

\* C12: a Genre, Book or BookInstance update-POST whose form passes the
\* validation chain, whose database calls succeed and whose id is not stored
\* in the entity's collection is answered with the 404 error alone and leaves
\* the four collections as they were.
C12_UpdateOfAbsentIs404 ==
    [][ (/\ res'.op \in LookupUpdatePosts
         /\ DbOk(res')
         /\ FormErrors(res') = {}
         /\ res'.req.id \notin DOMAIN UpdatedCollection(res'.op)) =>
            /\ IsError(Only(res'), 404)
            /\ UNCHANGED <<authors, genres, books, bookinstances>> ]_vars

\* C13: every stored BookInstance has one of the allowed statuses.
C13_InstanceStatusAllowed ==
    \A i \in DOMAIN bookinstances : bookinstances[i].status \in AllowedStatus

\* the list handlers, the collection each lists and the field its list is
\* sorted by
ListOps == {"author_list", "genre_list", "book_list", "bookinstance_list"}
ListedCollection(op) ==
    CASE op = "author_list" -> authors
      [] op = "genre_list" -> genres
      [] op = "book_list" -> books
      [] OTHER -> bookinstances
ListKey(op) ==
    CASE op = "author_list" -> "family_name"
      [] op = "genre_list" -> "name"
      [] op = "book_list" -> "title"
      [] OTHER -> "imprint"

\* C14: each list handler (its database call succeeding) renders the stored
\* documents of its collection, each exactly once and no other, in ascending
\* order: authors by family_name, genres by name, books by title, book
\* instances by imprint.
C14_ListsSorted ==
    (res.op \in ListOps /\ DbOk(res)) =>
        LET coll == ListedCollection(res.op)
            list == Only(res).list
        IN  /\ IsRender(Only(res), res.op)
            /\ Len(list) = Cardinality(DOMAIN coll)
            /\ { list[i] : i \in DOMAIN list } = DOMAIN coll
            /\ \A i \in DOMAIN list :
                   i < Len(list) =>
                       StrLeq(coll[list[i]][ListKey(res.op)],
                              coll[list[i + 1]][ListKey(res.op)])

\* C15: every request is answered by exactly one call: one render, one
\* redirect or one forward to the error handler; a delete-GET for an id that
\* is not stored in particular is answered by the redirect to the list alone.
C15_OneOutcome ==
    res.op # "none" => Len(res.out) = 1

\* C16: every stored Book's author is a stored Author and each of its genres a
\* stored Genre, and every stored BookInstance's book is a stored Book.
C16_ReferentialIntegrity ==
    /\ \A b \in DOMAIN books :
          /\ books[b].author \in DOMAIN authors
          /\ \A i \in DOMAIN books[b].genre : books[b].genre[i] \in DOMAIN genres
    /\ \A i \in DOMAIN bookinstances : bookinstances[i].book \in DOMAIN books

\* C17: no two stored Genres have the same name, however the Genre
\* create-POST and update-POST requests interleave.
C17_GenreNamesUnique ==
    \A g, h \in DOMAIN genres : genres[g].name = genres[h].name => g = h

\* C18: whenever a step removes an Author or a Genre, no stored Book
\* references the removed document at that moment, however the delete-POST
\* requests interleave with Book create-POST and update-POST requests.
C18_RemovedIsUnreferenced ==
    [][ /\ \A a \in DOMAIN authors \ DOMAIN authors' :
              \A b \in DOMAIN books' : books'[b].author # a
        /\ \A g \in DOMAIN genres \ DOMAIN genres' :
              \A b \in DOMAIN books' :
                 \A i \in DOMAIN books'[b].genre : books'[b].genre[i] # g ]_vars

====
